---- MODULE Spec2Model ----
(***************************************************************************)
(* Multi-list stock tally (stocktakewx.app.py): the session state, the      *)
(* gist-backed persistence and the button callbacks, as a state machine.    *)
(*                                                                          *)
(* Text (list names, codes, pasted input, JSON numerals) is a sequence of   *)
(* one-character strings.  A quantity is a binary floating-point number:    *)
(* an integer count of quanta of 2^-FracBits whose significand has at most  *)
(* MantBits bits (Python's float has 53; the model keeps the rounding rule  *)
(* and scales the width).                                                   *)
(***************************************************************************)
EXTENDS Integers, Sequences, FiniteSets, TLC

\* ------------------------------------------------------------------ bounds

MantBits == 3       \* significand width of a quantity
FracBits == 1       \* binary digits after the point (quantum = 2^-FracBits)
MaxSteps == 4       \* user actions explored per behaviour
MaxGists == 2       \* gists the account can create
MaxText == 4        \* length of the pasted texts that are tried character by character
MaxPairs == 2       \* code/number pairs of the pasted texts built from pairs
MaxCodes == 3       \* codes of the pasted texts built for the overview
MaxPlan == 4        \* user actions of a plan to get a deleted list back

\* ------------------------------------------------------------------ text

Digit == {"0", "1", "2", "3", "4", "5", "6", "7", "8", "9"}
Space == {" ", "\n"}

IsSpace(ch) == ch \in Space
IsDigit(ch) == ch \in Digit

DigitVal(ch) ==
    CASE ch = "0" -> 0 [] ch = "1" -> 1 [] ch = "2" -> 2 [] ch = "3" -> 3
      [] ch = "4" -> 4 [] ch = "5" -> 5 [] ch = "6" -> 6 [] ch = "7" -> 7
      [] ch = "8" -> 8 [] ch = "9" -> 9

DigitChar(d) ==
    CASE d = 0 -> "0" [] d = 1 -> "1" [] d = 2 -> "2" [] d = 3 -> "3"
      [] d = 4 -> "4" [] d = 5 -> "5" [] d = 6 -> "6" [] d = 7 -> "7"
      [] d = 8 -> "8" [] d = 9 -> "9"

RECURSIVE Pow(_, _)
Pow(b, n) == IF n = 0 THEN 1 ELSE b * Pow(b, n - 1)

Abs(n) == IF n < 0 THEN -n ELSE n

\* str.strip(): drop leading and trailing whitespace
RECURSIVE lstrip(_)
lstrip(s) == IF s # <<>> /\ IsSpace(Head(s)) THEN lstrip(Tail(s)) ELSE s

RECURSIVE rstrip(_)
rstrip(s) ==
    IF s # <<>> /\ IsSpace(s[Len(s)]) THEN rstrip(SubSeq(s, 1, Len(s) - 1)) ELSE s

\* faulty variant: the name is used as typed
strip_noop(s) == s

\* faulty variant: only leading whitespace is dropped
strip_left(s) == lstrip(s)

strip(s) == rstrip(lstrip(s))

\* ------------------------------------------------------------ quantities

\* numerator/denominator (both > 0) rounded to the nearest integer, ties to even
RoundHalfEven(num, den) ==
    LET q == num \div den
        r == num % den
    IN  IF 2 * r < den THEN q
        ELSE IF 2 * r > den THEN q + 1
        ELSE IF q % 2 = 0 THEN q ELSE q + 1

\* the least e >= 0 with num / (den * 2^e) < 2^MantBits
RECURSIVE Exponent(_, _, _)
Exponent(num, den, e) ==
    IF num < den * Pow(2, e) * Pow(2, MantBits) THEN e ELSE Exponent(num, den, e + 1)

\* the float nearest to the rational num/den quanta (num >= 0, den > 0)
RoundRat(num, den) ==
    LET e == Exponent(num, den, 0)
    IN  RoundHalfEven(num, den * Pow(2, e)) * Pow(2, e)

\* float.__add__: the exact sum, rounded to a representable float
fadd(a, b) ==
    LET s == a + b
    IN  IF s < 0 THEN -RoundRat(-s, 1) ELSE RoundRat(s, 1)

\* the value of a run of decimal digits
RECURSIVE DigitsToInt(_)
DigitsToInt(ds) ==
    IF ds = <<>> THEN 0
    ELSE 10 * DigitsToInt(SubSeq(ds, 1, Len(ds) - 1)) + DigitVal(ds[Len(ds)])

\* the position of the first "." in s, or 0
RECURSIVE DotAt(_, _)
DotAt(s, i) == IF i > Len(s) THEN 0 ELSE IF s[i] = "." THEN i ELSE DotAt(s, i + 1)

\* float(numeral) for -?digits(.digits)?: the nearest float to the decimal value
float(numeral) ==
    LET neg == numeral # <<>> /\ Head(numeral) = "-"
        body == IF neg THEN Tail(numeral) ELSE numeral
        dot == DotAt(body, 1)
        ip == IF dot = 0 THEN body ELSE SubSeq(body, 1, dot - 1)
        fp == IF dot = 0 THEN <<>> ELSE SubSeq(body, dot + 1, Len(body))
        num == (DigitsToInt(ip) * Pow(10, Len(fp)) + DigitsToInt(fp)) * Pow(2, FracBits)
        mag == RoundRat(num, Pow(10, Len(fp)))
    IN  IF neg THEN -mag ELSE mag

\* the decimal digits of n >= 0, at least one
RECURSIVE IntToDigits(_)
IntToDigits(n) ==
    IF n < 10 THEN <<DigitChar(n)>>
    ELSE Append(IntToDigits(n \div 10), DigitChar(n % 10))

\* n >= 0 as exactly w digits, zero-padded on the left
RECURSIVE PadDigits(_, _)
PadDigits(n, w) ==
    IF w = 0 THEN <<>> ELSE Append(PadDigits(n \div 10, w - 1), DigitChar(n % 10))

\* drop trailing zeros, keeping at least one digit
RECURSIVE TrimZeros(_)
TrimZeros(ds) ==
    IF Len(ds) > 1 /\ ds[Len(ds)] = "0" THEN TrimZeros(SubSeq(ds, 1, Len(ds) - 1)) ELSE ds

\* faulty variant: the quantity is written the way the overview displays whole numbers
repr_int(q) ==
    (IF q < 0 THEN <<"-">> ELSE <<>>) \o IntToDigits(Abs(q) \div Pow(2, FracBits))
        \o <<".", "0">>

\* float.__repr__ as json.dumps writes it: sign, integer part, ".", fraction
repr(q) ==
    LET m == Abs(q)
        unit == Pow(2, FracBits)
        ip == IntToDigits(m \div unit)
        fp == IF FracBits = 0 THEN <<"0">>
              ELSE TrimZeros(PadDigits((m % unit) * Pow(5, FracBits), FracBits))
    IN  (IF q < 0 THEN <<"-">> ELSE <<>>) \o ip \o <<".">> \o fp

\* ------------------------------------------------------------------ parser
\* re.findall(r"(\S+)\s*(-?[\d]+(?:\.[\d]+)?)", text)

\* how many characters from position i on are whitespace / digits / neither
RECURSIVE SpaceRun(_, _)
SpaceRun(s, i) == IF i <= Len(s) /\ IsSpace(s[i]) THEN 1 + SpaceRun(s, i + 1) ELSE 0

RECURSIVE DigitRun(_, _)
DigitRun(s, i) == IF i <= Len(s) /\ IsDigit(s[i]) THEN 1 + DigitRun(s, i + 1) ELSE 0

RECURSIVE NonSpaceRun(_, _)
NonSpaceRun(s, i) ==
    IF i <= Len(s) /\ ~IsSpace(s[i]) THEN 1 + NonSpaceRun(s, i + 1) ELSE 0

\* length of the match of -?[\d]+(?:\.[\d]+)? at position p, 0 when there is none
NumberAt(s, p) ==
    LET sign == IF p <= Len(s) /\ s[p] = "-" THEN 1 ELSE 0
        ints == DigitRun(s, p + sign)
        dot == p + sign + ints
        frac == IF dot <= Len(s) /\ s[dot] = "." /\ DigitRun(s, dot + 1) > 0
                THEN 1 + DigitRun(s, dot + 1) ELSE 0
    IN  IF ints = 0 THEN 0 ELSE sign + ints + frac

\* the match starting at i with \S+ taking k characters, k tried greedily from
\* the longest; k = 0 means no match starts at i
RECURSIVE MatchAt(_, _, _)
MatchAt(s, i, k) ==
    IF k = 0 THEN [found |-> FALSE, code |-> <<>>, qty |-> <<>>, next |-> i + 1]
    ELSE LET p == i + k + SpaceRun(s, i + k)
             n == NumberAt(s, p)
         IN  IF n > 0
             THEN [found |-> TRUE, code |-> SubSeq(s, i, i + k - 1),
                   qty |-> SubSeq(s, p, p + n - 1), next |-> p + n]
             ELSE MatchAt(s, i, k - 1)

RECURSIVE FindAllFrom(_, _)
FindAllFrom(s, i) ==
    IF i > Len(s) THEN <<>>
    ELSE LET m == MatchAt(s, i, NonSpaceRun(s, i))
         IN  IF m.found THEN <<<<m.code, m.qty>>>> \o FindAllFrom(s, m.next)
             ELSE FindAllFrom(s, i + 1)

\* faulty variant: re.search, only the first match is returned
findall_first(text) ==
    LET all == FindAllFrom(text, 1)
    IN  IF all = <<>> THEN <<>> ELSE <<Head(all)>>

findall(text) == FindAllFrom(text, 1)

\* ------------------------------------------------------------- collections
\* A tally (Counter) is a function code -> quantity; a collection (all_lists)
\* is a function list name -> tally.  Dict equality ignores insertion order.

EmptyTally == <<>>
EmptyLists == <<>>

\* d[k] = v on a dict
Put(d, k, v) == [x \in DOMAIN d \cup {k} |-> IF x = k THEN v ELSE d[x]]

\* d.pop(k)
Without(d, k) == [x \in DOMAIN d \ {k} |-> d[x]]

\* Counter.__missing__: an absent code counts 0
Count(tally, code) == IF code \in DOMAIN tally THEN tally[code] ELSE 0

\* for code, qty in matches: counter[code] += float(qty)
RECURSIVE Accumulate(_, _)
Accumulate(tally, matches) ==
    IF matches = <<>> THEN tally
    ELSE LET code == Head(matches)[1]
             qty == Head(matches)[2]
         IN  Accumulate(Put(tally, code, fadd(Count(tally, code), float(qty))),
                        Tail(matches))

\* {k: cnt.copy() for k, cnt in all_lists.items()}
Snapshot(lists) == [k \in DOMAIN lists |-> [c \in DOMAIN lists[k] |-> lists[k][c]]]

\* json.dumps({n: dict(c) for n, c in all_lists.items()}): every quantity as a numeral
dumps(lists) == [n \in DOMAIN lists |-> [c \in DOMAIN lists[n] |-> repr(lists[n][c])]]

\* {name: Counter(cnt) for name, cnt in json.loads(content).items()}
loads(doc) == [n \in DOMAIN doc |-> [c \in DOMAIN doc[n] |-> float(doc[n][c])]]

\* ---------------------------------------------------------------- overview
\* sorted(counter.items(), key=sort_key)

\* the characters of the model's codes in code-point order, as str compares them
CodePoints ==
    <<"-", ".", "0", "1", "2", "3", "4", "5", "6", "7", "8", "9", "A", "B", "C",
      "a", "b", "c", "x", "y", "z">>

ord(ch) == CHOOSE i \in 1..Len(CodePoints) : CodePoints[i] = ch

\* str.__lt__: the first differing character decides, a proper prefix is smaller
RECURSIVE StrLess(_, _)
StrLess(a, b) ==
    IF b = <<>> THEN FALSE
    ELSE IF a = <<>> THEN TRUE
    ELSE IF Head(a) # Head(b) THEN ord(Head(a)) < ord(Head(b))
    ELSE StrLess(Tail(a), Tail(b))

\* re.fullmatch(r'[\d\.]+', code)
fullmatch(code) ==
    code # <<>> /\ \A i \in 1..Len(code) : IsDigit(code[i]) \/ code[i] = "."

\* how many "." the text holds
Dots(s) == Cardinality({i \in 1..Len(s) : s[i] = "."})

\* float(code) on a text of digits and dots raises ValueError unless there is a
\* digit and at most one dot
FloatRaises(code) == Dots(code) > 1 \/ Dots(code) = Len(code)

\* faulty variant: every code is ordered as a string
sort_key_str(item) == [raises |-> FALSE, class |-> 1, num |-> 0, str |-> item[1]]

\* sort_key(item): (0, float(code)) for a code of digits and dots, else (1, code)
sort_key(item) ==
    LET code == item[1]
    IN  IF fullmatch(code)
        THEN IF FloatRaises(code)
             THEN [raises |-> TRUE, class |-> 0, num |-> 0, str |-> <<>>]
             ELSE [raises |-> FALSE, class |-> 0, num |-> float(code), str |-> <<>>]
        ELSE [raises |-> FALSE, class |-> 1, num |-> 0, str |-> code]

\* tuple.__lt__ on two keys: the class first, then float against float or str
\* against str
KeyLess(k1, k2) ==
    IF k1.class # k2.class THEN k1.class < k2.class
    ELSE IF k1.class = 0 THEN k1.num < k2.num
    ELSE StrLess(k1.str, k2.str)

\* one step of a stable sort: item goes behind every row whose key is not greater
RECURSIVE Insert(_, _)
Insert(rows, item) ==
    IF rows = <<>> THEN <<item>>
    ELSE IF KeyLess(sort_key(item), sort_key(rows[Len(rows)]))
         THEN Append(Insert(SubSeq(rows, 1, Len(rows) - 1), item), rows[Len(rows)])
         ELSE Append(rows, item)

RECURSIVE SortFrom(_, _)
SortFrom(rows, items) ==
    IF items = <<>> THEN rows ELSE SortFrom(Insert(rows, Head(items)), Tail(items))

\* sorted(items, key=sort_key): the keys are computed first, so one key that
\* raises makes the call raise
sorted(items) ==
    IF \E i \in 1..Len(items) : sort_key(items[i]).raises
    THEN [error |-> "ValueError", rows |-> <<>>]
    ELSE [error |-> "none", rows |-> SortFrom(<<>>, items)]

\* the codes of the matches in the order a Counter first sees them
RECURSIVE FirstSeen(_, _)
FirstSeen(seen, matches) ==
    IF matches = <<>> THEN seen
    ELSE LET code == Head(matches)[1]
         IN  FirstSeen(IF \E i \in 1..Len(seen) : seen[i] = code THEN seen
                       ELSE Append(seen, code), Tail(matches))

\* counter.items() of a Counter that began empty and took the matches
items(matches) ==
    LET order == FirstSeen(<<>>, matches)
        tally == Accumulate(EmptyTally, matches)
    IN  [i \in 1..Len(order) |-> <<order[i], tally[order[i]]>>]

\* --------------------------------------------------------------- constants

\* current_list / select_choice when nothing is selected (Python's None)
None == <<"None">>

\* the first option of the select box, the "new list" placeholder entry
NewLabel == <<"-", " ", "n", "e", "w", " ", "-">>

\* st.secrets["github"]["gist_id"] when it is left empty
NoId == <<>>

\* the identifier of the n-th gist of the account; Gist(0) is the configured one
Gist(n) == <<"gist", n>>

\* what the user may type into the "new list name" field
NameInputs == {<<>>, <<" ">>, <<"A">>, <<" ", "A", " ">>, <<"C">>}

\* what the user may paste into the input area
TextNoPair == <<"a", "b", "c">>
TextMixed == <<"x", " ", "1", ".", "5", " ", "y", " ", "-", "1", "\n", "x", " ", "1">>
TextBigFirst == <<"x", " ", "4", " ", "x", " ", "0", ".", "5", " ", "x", " ", "0", ".", "5">>
TextBigLast == <<"x", " ", "0", ".", "5", " ", "x", " ", "0", ".", "5", " ", "x", " ", "4">>
TextInputs == {<<>>, TextNoPair, TextMixed, TextBigFirst, TextBigLast}

\* a collection some earlier run left in the configured gist
StoredLists ==
    [n \in {<<"A">>, <<"B">>} |->
        IF n = <<"A">> THEN [c \in {<<"x">>} |-> float(<<"1">>)] ELSE EmptyTally]

\* a gist file: valid is FALSE when stock_data.json is missing or is not JSON
File(doc) == [valid |-> TRUE, doc |-> doc]
BadFile == [valid |-> FALSE, doc |-> <<>>]

\* ------------------------------------------------------------------- state

VARIABLES
    all_lists,      \* st.session_state.all_lists
    current_list,   \* st.session_state.current_list
    history,        \* st.session_state.history
    select_choice,  \* st.session_state.select_choice
    gist_id,        \* st.secrets["github"]["gist_id"]
    gists,          \* the account's gists: identifier -> stock_data.json
    created,        \* how many gists save_to_gist has created
    last,           \* the action just handled: op, arg, status, save
    mut,            \* the last accepted mutation: op, all_lists before it, the
                    \* identifier its save returned, the op an undo undid; the
                    \* collections before the mutations not yet undone (trail);
                    \* the first identifier a save of this session made (minted)
    steps,          \* user actions so far
    shared,         \* which Counter objects are one object: <<h1, h2, name>> when
                    \* holders h1 < h2 have the same object under name, holder 0
                    \* being all_lists and holder i > 0 being history[i]
    sessions,       \* the browser sessions of the app: which one the variables
                    \* above belong to, which one saved last, the state of the other
    call            \* one pasted text on its way through findall, the Counter
                    \* and the sorted overview

vars == <<all_lists, current_list, history, select_choice, gist_id, gists, created,
          last, mut, steps, shared, sessions, call>>

\* ------------------------------------------------------------- persistence

\* faulty variant: a read that fails yields a collection with one empty list
load_from_gist_default(gid, store, reachable) ==
    IF gid # NoId /\ reachable /\ gid \in DOMAIN store /\ store[gid].valid
    THEN loads(store[gid].doc)
    ELSE [n \in {<<"A">>} |-> EmptyTally]

\* load_from_gist(): the stored collection, or {} when the identifier is empty or
\* anything raises (backend unreachable, gist or file missing, content not JSON)
load_from_gist(gid, store, reachable) ==
    IF gid = NoId THEN EmptyLists
    ELSE IF reachable /\ gid \in DOMAIN store /\ store[gid].valid
         THEN loads(store[gid].doc)
         ELSE EmptyLists

\* which of its paths load_from_gist took
load_status(gid, store, reachable) ==
    IF gid = NoId THEN "unconfigured"
    ELSE IF ~reachable THEN "unreachable"
    ELSE IF gid \notin DOMAIN store THEN "missing"
    ELSE IF ~store[gid].valid THEN "malformed"
    ELSE "loaded"

\* faulty variant: the edit keeps the stored lists the session does not hold
save_to_gist_merge(lists, editOk, createOk) ==
    LET data == dumps(lists)
    IN  IF gist_id # NoId /\ gist_id \in DOMAIN gists /\ editOk
        THEN LET old == IF gists[gist_id].valid THEN gists[gist_id].doc ELSE <<>>
                 both == [n \in DOMAIN old \cup DOMAIN data |->
                             IF n \in DOMAIN data THEN data[n] ELSE old[n]]
             IN  [result |-> "updated", id |-> gist_id,
                  gists |-> Put(gists, gist_id, File(both)), created |-> created]
        ELSE IF createOk /\ created < MaxGists
        THEN [result |-> "created", id |-> Gist(created + 1),
              gists |-> Put(gists, Gist(created + 1), File(data)),
              created |-> created + 1]
        ELSE [result |-> "failed", id |-> NoId, gists |-> gists, created |-> created]

\* save_to_gist(all_lists): edit the configured gist; when no identifier is set or
\* the edit raises, create a new private gist; create_gist raising propagates
save_to_gist(lists, editOk, createOk) ==
    LET data == dumps(lists)
    IN  IF gist_id # NoId /\ gist_id \in DOMAIN gists /\ editOk
        THEN [result |-> "updated", id |-> gist_id,
              gists |-> Put(gists, gist_id, File(data)), created |-> created]
        ELSE IF createOk /\ created < MaxGists
        THEN [result |-> "created", id |-> Gist(created + 1),
              gists |-> Put(gists, Gist(created + 1), File(data)),
              created |-> created + 1]
        ELSE [result |-> "failed", id |-> NoId, gists |-> gists, created |-> created]

\* ----------------------------------------------------------------- widgets

\* options = ["- new -"] + list(all_lists.keys())
Options(lists) == {NewLabel} \cup DOMAIN lists

\* st.selectbox(..., key="select_choice") on a rerun: a value that is no longer an
\* option falls back to the first option; no selection (None) stays
selectbox(choice, lists) ==
    IF choice = None \/ choice \in Options(lists) THEN choice ELSE NewLabel

\* if select_choice == "- new -": the name field and the create button
CreateOffered == select_choice = NewLabel

\* else: if select_choice in all_lists: the delete button
DeleteOffered == select_choice # NewLabel /\ select_choice \in DOMAIN all_lists

\* if current not in all_lists: st.stop(); below it the add, clear, undo buttons
CoreOffered == current_list \in DOMAIN all_lists

\* ---------------------------------------------------------------- handlers
\* Each handler's assignments up to its save_to_gist call, as the session state
\* they produce.

Mem(lists, cur, hist, choice) ==
    [all_lists |-> lists, current_list |-> cur, history |-> hist,
     select_choice |-> choice]

\* faulty variant: no snapshot is taken when the collection equals the newest one
record_history_dedupe(hist, lists) ==
    IF hist # <<>> /\ hist[Len(hist)] = lists THEN hist
    ELSE Append(hist, Snapshot(lists))

\* history.append({k: cnt.copy() for k, cnt in all_lists.items()})
record_history(hist, lists) == Append(hist, Snapshot(lists))

\* faulty variant: {k: cnt for k, cnt in all_lists.items()}, the snapshot holds the
\* live Counter objects
Shares_all(lists) == DOMAIN lists

\* the names under which a new snapshot holds the very Counter object of the
\* live collection: none, cnt.copy() makes a new object for every list
Shares(lists) == {}

\* the aliasing after history.append(snapshot) has made the snapshot holder k
PushShared(sh, k, lists) ==
    sh \cup {<<0, k, n>> : n \in Shares(lists)}
       \cup {<<t[2], k, t[3]>> : t \in {u \in sh : u[1] = 0 /\ u[3] \in Shares(lists)}}

\* the aliasing after all_lists[name] is bound to a new Counter or popped
Rebind(sh, name) == {t \in sh : ~(t[1] = 0 /\ t[3] = name)}

\* the aliasing after all_lists = history.pop(): the live collection is the
\* dict that was holder k
PopShared(sh, k) ==
    {t \in sh : t[1] # 0 /\ t[2] # k}
        \cup {<<0, t[1], t[3]>> : t \in {u \in sh : u[1] # 0 /\ u[2] = k}}

\* counter[code] += ... writes into the Counter object: every snapshot that
\* holds the same object under name shows the new tally
InPlace(hist, sh, name, tally) ==
    [i \in 1..Len(hist) |->
        IF <<0, i, name>> \in sh THEN Put(hist[i], name, tally) ELSE hist[i]]

\* the aliasing a handler leaves
aliases(op) ==
    LET pushed == PushShared(shared, Len(history) + 1, all_lists)
    IN  CASE op = "create" -> pushed
          [] op = "delete" -> Rebind(pushed, current_list)
          [] op = "add" -> pushed
          [] op = "clear" -> Rebind(pushed, current_list)
          [] op = "undo" -> PopShared(shared, Len(history))

\* faulty variant: the new list is not made the current one
create_new_list_mem_keep(name) ==
    Mem(Put(all_lists, name, EmptyTally), current_list,
        record_history(history, all_lists), select_choice)

create_new_list_mem(name) ==
    Mem(Put(all_lists, name, EmptyTally), name,
        record_history(history, all_lists), name)

\* faulty variant: the deleted list stays the current selection
delete_current_list_mem_keep ==
    Mem(Without(all_lists, current_list), current_list,
        record_history(history, all_lists), select_choice)

delete_current_list_mem ==
    Mem(Without(all_lists, current_list), None,
        record_history(history, all_lists), None)

add_to_total_mem(matches) ==
    LET tally == Accumulate(all_lists[current_list], matches)
    IN  Mem(Put(all_lists, current_list, tally), current_list,
            InPlace(record_history(history, all_lists), aliases("add"),
                    current_list, tally),
            select_choice)

\* faulty variant: the list is removed instead of emptied
clear_all_mem_pop ==
    Mem(Without(all_lists, current_list), current_list,
        record_history(history, all_lists), select_choice)

clear_all_mem ==
    Mem(Put(all_lists, current_list, EmptyTally), current_list,
        record_history(history, all_lists), select_choice)

\* faulty variant: history.pop(0), the oldest snapshot instead of the newest
undo_mem_oldest ==
    Mem(history[1], current_list, Tail(history), select_choice)

\* faulty variant: history[-1], the newest snapshot is restored but stays
undo_mem_peek ==
    Mem(history[Len(history)], current_list, history, select_choice)

undo_mem ==
    Mem(history[Len(history)], current_list,
        SubSeq(history, 1, Len(history) - 1), select_choice)

\* faulty variant: the undo stack is dropped once the save has gone through
after_save_forget(op, m) ==
    Mem(m.all_lists, m.current_list, <<>>, m.select_choice)

\* the statements of a handler that follow save_to_gist (st.success only): they
\* touch no session state, and are skipped when save_to_gist raises
after_save(op, m) == m

\* faulty variant: the collection is saved as it was before the mutation
saved_before(m) == all_lists

\* the argument of save_to_gist(st.session_state.all_lists): the live collection
\* after the handler's mutation
saved(m) == m.all_lists

\* the session state once the handler has returned and the script has rerun
Rerun(m) ==
    Mem(m.all_lists, m.current_list, m.history,
        selectbox(m.select_choice, m.all_lists))

\* no mutation accepted yet in this session
NoMutation ==
    [op |-> "none", before |-> EmptyLists, id |-> NoId, undone |-> "none",
     trail |-> <<>>, minted |-> NoId]

\* an accepted mutation: the handler's assignments, the save, the rerun
Accept(op, arg, m, editOk, createOk) ==
    LET sv == save_to_gist(saved(m), editOk, createOk)
        done == Rerun(IF sv.result = "failed" THEN m ELSE after_save(op, m))
    IN  /\ all_lists' = done.all_lists
        /\ current_list' = done.current_list
        /\ history' = done.history
        /\ select_choice' = done.select_choice
        /\ gists' = sv.gists
        /\ created' = sv.created
        /\ gist_id' = gist_id
        /\ last' = [op |-> op, arg |-> arg, status |-> "ok", save |-> sv.result,
                    id |-> sv.id]
        /\ mut' = [op |-> op, before |-> all_lists, id |-> sv.id,
                   undone |-> IF op = "undo" THEN mut.op ELSE "none",
                   trail |-> IF op = "undo"
                             THEN SubSeq(mut.trail, 1, Len(mut.trail) - 1)
                             ELSE Append(mut.trail, all_lists),
                   minted |-> IF mut.minted = NoId /\ sv.result = "created"
                              THEN sv.id ELSE mut.minted]
        /\ steps' = steps + 1
        /\ shared' = aliases(op)
        /\ sessions' = [sessions EXCEPT
                           !.writer = IF sv.result = "updated" THEN sessions.active
                                      ELSE @]
        /\ call' = call

\* a handler that warns and returns early
Reject(op, arg) ==
    /\ last' = [op |-> op, arg |-> arg, status |-> "rejected", save |-> "none",
                id |-> NoId]
    /\ steps' = steps + 1
    /\ UNCHANGED <<all_lists, current_list, history, select_choice, gist_id, gists,
                   created, mut, shared, sessions, call>>

\* no other session: the variables belong to session 1, nobody has saved yet
NoSession == [mem |-> <<>>, mut |-> <<>>, shared |-> {}]
OneSession == [active |-> 1, writer |-> 0, other |-> NoSession]

\* no text is on its way
NoCall == [stage |-> "none", text |-> <<>>, matches |-> <<>>, items |-> <<>>,
           rows |-> <<>>, error |-> "none"]

\* on_select_change: the user picks another option of the select box
on_select_change ==
    /\ steps < MaxSteps
    /\ \E choice \in Options(all_lists) \ {select_choice} :
          /\ select_choice' = choice
          /\ current_list' = choice
          /\ last' = [op |-> "select", arg |-> choice, status |-> "ok",
                      save |-> "none", id |-> NoId]
    /\ steps' = steps + 1
    /\ UNCHANGED <<all_lists, history, gist_id, gists, created, mut, shared,
                   sessions, call>>

create_new_list ==
    /\ steps < MaxSteps
    /\ CreateOffered
    /\ \E raw \in NameInputs, editOk \in BOOLEAN, createOk \in BOOLEAN :
          LET name == strip(raw)
          IN  IF name = <<>> \/ name \in DOMAIN all_lists
              THEN Reject("create", raw)
              ELSE Accept("create", raw, create_new_list_mem(name), editOk, createOk)

delete_current_list ==
    /\ steps < MaxSteps
    /\ DeleteOffered
    /\ \E editOk \in BOOLEAN, createOk \in BOOLEAN :
          IF current_list = None \/ current_list = <<>>
                \/ current_list \notin DOMAIN all_lists
          THEN Reject("delete", <<>>)
          ELSE Accept("delete", <<>>, delete_current_list_mem, editOk, createOk)

add_to_total ==
    /\ steps < MaxSteps
    /\ CoreOffered
    /\ \E text \in TextInputs, editOk \in BOOLEAN, createOk \in BOOLEAN :
          LET matches == findall(text)
          IN  IF matches = <<>>
              THEN Reject("add", text)
              ELSE Accept("add", text, add_to_total_mem(matches), editOk, createOk)

clear_all ==
    /\ steps < MaxSteps
    /\ CoreOffered
    /\ \E editOk \in BOOLEAN, createOk \in BOOLEAN :
          Accept("clear", <<>>, clear_all_mem, editOk, createOk)

undo ==
    /\ steps < MaxSteps
    /\ CoreOffered
    /\ \E editOk \in BOOLEAN, createOk \in BOOLEAN :
          IF history = <<>>
          THEN Reject("undo", <<>>)
          ELSE Accept("undo", <<>>, undo_mem, editOk, createOk)

\* a new session: the state initialisation at the top of the script
start ==
    /\ steps < MaxSteps
    /\ \E reachable \in BOOLEAN :
          /\ all_lists' = load_from_gist(gist_id, gists, reachable)
          /\ last' = [op |-> "start", arg |-> <<>>,
                      status |-> load_status(gist_id, gists, reachable),
                      save |-> "none", id |-> NoId]
    /\ current_list' = None
    /\ history' = <<>>
    /\ select_choice' = None
    /\ mut' = NoMutation
    /\ steps' = steps + 1
    /\ shared' = {}
    /\ UNCHANGED <<gist_id, gists, created, sessions, call>>

\* the operator fills a gist identifier the app announced into the secrets
configure ==
    /\ steps < MaxSteps
    /\ \E n \in 1..created :
          /\ Gist(n) # gist_id
          /\ gist_id' = Gist(n)
    /\ last' = [op |-> "configure", arg |-> <<>>, status |-> "ok", save |-> "none",
                id |-> NoId]
    /\ steps' = steps + 1
    /\ UNCHANGED <<all_lists, current_list, history, select_choice, gists, created,
                   mut, shared, sessions, call>>

Init ==
    /\ gist_id \in {NoId, Gist(0)}
    /\ gists \in {<<>>} \cup
                 (IF gist_id = NoId THEN {}
                  ELSE {[g \in {Gist(0)} |-> f] :
                           f \in {File(dumps(StoredLists)), File(dumps(EmptyLists)),
                                  BadFile}})
    /\ created = 0
    /\ \E reachable \in BOOLEAN :
          /\ all_lists = load_from_gist(gist_id, gists, reachable)
          /\ last = [op |-> "start", arg |-> <<>>,
                     status |-> load_status(gist_id, gists, reachable),
                     save |-> "none", id |-> NoId]
    /\ current_list = None
    /\ history = <<>>
    /\ select_choice = None
    /\ mut = NoMutation
    /\ steps = 0
    /\ shared = {}
    /\ sessions = OneSession
    /\ call = NoCall

Next ==
    \/ on_select_change
    \/ create_new_list
    \/ delete_current_list
    \/ add_to_total
    \/ clear_all
    \/ undo
    \/ start
    \/ configure

Spec == Init /\ [][Next]_vars

\* ------------------------------------------------------------------- plans
\* What the user can make of a session by one action, as a function of the session
\* record: the controls the script offers for it and the handlers' assignments.
\* The save changes no session state, so it is left out here.

\* the select box: any other option
SelectSteps(m) ==
    {Mem(m.all_lists, c, m.history, c) : c \in Options(m.all_lists) \ {m.select_choice}}

\* the create button, offered under the placeholder entry
CreateSteps(m) ==
    IF m.select_choice # NewLabel THEN {}
    ELSE {Rerun(Mem(Put(m.all_lists, n, EmptyTally), n,
                    record_history(m.history, m.all_lists), n)) :
             n \in {strip(raw) : raw \in NameInputs} \ ({<<>>} \cup DOMAIN m.all_lists)}

\* the delete button, offered when the select box names a list
DeleteSteps(m) ==
    IF m.select_choice \in DOMAIN m.all_lists /\ m.current_list \in DOMAIN m.all_lists
    THEN {Rerun(Mem(Without(m.all_lists, m.current_list), None,
                    record_history(m.history, m.all_lists), None))}
    ELSE {}

\* the add and clear buttons, rendered after the st.stop() guard
CoreSteps(m) ==
    IF m.current_list \notin DOMAIN m.all_lists THEN {}
    ELSE {Rerun(Mem(Put(m.all_lists, m.current_list,
                        Accumulate(m.all_lists[m.current_list], findall(t))),
                    m.current_list, record_history(m.history, m.all_lists),
                    m.select_choice)) : t \in {u \in TextInputs : findall(u) # <<>>}}
         \cup {Rerun(Mem(Put(m.all_lists, m.current_list, EmptyTally), m.current_list,
                         record_history(m.history, m.all_lists), m.select_choice))}

\* the undo button, rendered after the st.stop() guard
UndoSteps(m) ==
    IF m.current_list \in DOMAIN m.all_lists /\ m.history # <<>>
    THEN {Rerun(Mem(m.history[Len(m.history)], m.current_list,
                    SubSeq(m.history, 1, Len(m.history) - 1), m.select_choice))}
    ELSE {}

UserSteps(m) ==
    SelectSteps(m) \cup CreateSteps(m) \cup DeleteSteps(m) \cup CoreSteps(m)
        \cup UndoSteps(m)

\* the session records the user can reach from those of S by at most k actions
RECURSIVE Within(_, _)
Within(S, k) ==
    IF k = 0 THEN S ELSE Within(S \cup UNION {UserSteps(m) : m \in S}, k - 1)

\* some plan of at most k actions from m ends in an undo that pops the top
\* snapshot of m's history and so leaves the collection target
CanRestore(m, target, k) ==
    \E x \in Within({m}, k - 1) :
        /\ x.history = m.history
        /\ \E y \in UndoSteps(x) : y.all_lists = target

\* ------------------------------------------------------------ two sessions
\* Two browser sessions of the one deployment: each has its own st.session_state,
\* both read the same secrets and write the same gist.  A callback runs to its end
\* within its session; the sessions' callbacks interleave in any order.

\* the session state as one record
Here == Mem(all_lists, current_list, history, select_choice)

\* the next callback comes from the other session: the variables of the session
\* state now stand for that session
switch ==
    /\ sessions.other # NoSession
    /\ all_lists' = sessions.other.mem.all_lists
    /\ current_list' = sessions.other.mem.current_list
    /\ history' = sessions.other.mem.history
    /\ select_choice' = sessions.other.mem.select_choice
    /\ mut' = sessions.other.mut
    /\ shared' = sessions.other.shared
    /\ sessions' = [active |-> 3 - sessions.active, writer |-> sessions.writer,
                    other |-> [mem |-> Here, mut |-> mut, shared |-> shared]]
    /\ last' = [op |-> "switch", arg |-> <<>>, status |-> "ok", save |-> "none",
                id |-> NoId]
    /\ UNCHANGED <<gist_id, gists, created, steps, call>>

\* both sessions have loaded the collection of the configured gist
TwoInit ==
    /\ gist_id = Gist(0)
    /\ gists \in {[g \in {Gist(0)} |-> f] :
                     f \in {File(dumps(StoredLists)), File(dumps(EmptyLists))}}
    /\ created = 0
    /\ all_lists = load_from_gist(gist_id, gists, TRUE)
    /\ last = [op |-> "start", arg |-> <<>>,
               status |-> load_status(gist_id, gists, TRUE), save |-> "none",
               id |-> NoId]
    /\ current_list = None
    /\ history = <<>>
    /\ select_choice = None
    /\ mut = NoMutation
    /\ steps = 0
    /\ shared = {}
    /\ sessions = [active |-> 1, writer |-> 0,
                   other |-> [mem |-> Mem(load_from_gist(gist_id, gists, TRUE), None,
                                          <<>>, None),
                              mut |-> NoMutation, shared |-> {}]]
    /\ call = NoCall

\* the gist is there throughout: a save edits it, or, with the backend down, both
\* the edit and the create raise; no save falls back to a new gist
NoFallback == last.save # "created"

TwoNext ==
    \/ on_select_change
    \/ create_new_list /\ NoFallback'
    \/ delete_current_list /\ NoFallback'
    \/ add_to_total /\ NoFallback'
    \/ clear_all /\ NoFallback'
    \/ undo /\ NoFallback'
    \/ start
    \/ switch

SpecTwo == TwoInit /\ [][TwoNext]_vars

\* ------------------------------------------------- parser and overview alone
\* One pasted text taken through add_to_total's findall and accumulation into an
\* empty Counter, and through the overview's sorted(); the session plays no part.

\* the concatenation of a sequence of texts
RECURSIVE Join(_)
Join(parts) == IF parts = <<>> THEN <<>> ELSE Head(parts) \o Join(Tail(parts))

\* every text of at most MaxText of these characters
TextChars == {"a", "1", ".", "-", " ", "\n"}
ShortTexts == UNION {[1..k -> TextChars] : k \in 0..MaxText}

\* texts of 1..MaxPairs pairs: a code, whitespace, a number; whitespace between
\* the pairs
PairCodes == {<<"a">>, <<"a", "1">>, <<"1">>}
PairGaps == {<<" ">>, <<"\n">>}
PairNumbers == {<<"1">>, <<"-", "1">>, <<"1", ".", "5">>}
OnePair == {Join(<<c, g, n>>) : c \in PairCodes, g \in PairGaps, n \in PairNumbers}

RECURSIVE PairTexts(_)
PairTexts(k) ==
    IF k = 1 THEN OnePair
    ELSE LET shorter == PairTexts(k - 1)
         IN  shorter \cup {Join(<<t, g, q>>) : t \in shorter, g \in PairGaps, q \in OnePair}

\* texts of 1..MaxCodes codes, each counted once
OverviewCodes ==
    {<<"2">>, <<"1", "0">>, <<"1", ".", "5">>, <<"1", ".", "0">>,
     <<"1", ".", "2", ".", "3">>, <<"B">>, <<"a", "b">>, <<"-", "1">>}

RECURSIVE CodeTexts(_)
CodeTexts(k) ==
    IF k = 1 THEN {c \o <<" ", "1">> : c \in OverviewCodes}
    ELSE LET shorter == CodeTexts(k - 1)
         IN  shorter \cup {Join(<<t, <<" ">>, c, <<" ", "1">>>>) :
                              t \in shorter, c \in OverviewCodes}

PastedTexts == ShortTexts \cup PairTexts(MaxPairs) \cup CodeTexts(MaxCodes)

\* a session without a store in which nothing has been done
Untouched ==
    /\ gist_id = NoId /\ gists = <<>> /\ created = 0
    /\ all_lists = EmptyLists /\ current_list = None /\ history = <<>>
    /\ select_choice = None
    /\ last = [op |-> "start", arg |-> <<>>, status |-> "unconfigured",
               save |-> "none", id |-> NoId]
    /\ mut = NoMutation /\ steps = 0 /\ shared = {} /\ sessions = OneSession

Session == <<all_lists, current_list, history, select_choice, gist_id, gists, created,
             last, mut, steps, shared, sessions>>

\* text = st.session_state.input_text
PureInit ==
    /\ Untouched
    /\ \E text \in PastedTexts : call = [NoCall EXCEPT !.stage = "pasted", !.text = text]

\* matches = re.findall(...); if not matches: st.warning(...); return
parse ==
    /\ call.stage = "pasted"
    /\ LET matches == findall(call.text)
       IN  call' = [call EXCEPT !.matches = matches,
                                !.stage = IF matches = <<>> THEN "warned" ELSE "matched"]
    /\ UNCHANGED Session

\* for code, qty in matches: counter[code] += float(qty)
accumulate ==
    /\ call.stage = "matched"
    /\ call' = [call EXCEPT !.items = items(call.matches), !.stage = "counted"]
    /\ UNCHANGED Session

\* for code, qty in sorted(counter.items(), key=sort_key): rows.append(...)
render ==
    /\ call.stage = "counted"
    /\ LET out == sorted(call.items)
       IN  call' = [call EXCEPT !.rows = out.rows, !.error = out.error,
                                !.stage = IF out.error = "none" THEN "shown"
                                          ELSE "raised"]
    /\ UNCHANGED Session

PureNext ==
    \/ parse
    \/ accumulate
    \/ render

SpecPure == PureInit /\ [][PureNext]_vars

\* ------------------------------------------------------------------ claims

MutationOps == {"create", "delete", "add", "clear"}

\* s is empty or whitespace only
IsBlank(s) == \A i \in 1..Len(s) : IsSpace(s[i])

\* raw without its surrounding whitespace: the part of raw that neither starts nor
\* ends with whitespace and has only whitespace around it
TrimOf(raw) ==
    CHOOSE n \in {SubSeq(raw, i, j) : i \in 1..(Len(raw) + 1), j \in 0..Len(raw)} :
        /\ n = <<>> \/ (~IsSpace(n[1]) /\ ~IsSpace(n[Len(n)]))
        /\ \E i \in 1..(Len(raw) + 1), j \in 0..Len(raw) :
              /\ n = SubSeq(raw, i, j)
              /\ \A k \in 1..Len(raw) : (k < i \/ k > j) => IsSpace(raw[k])

\* a quantity with a fractional part
HasFraction(q) == q % Pow(2, FracBits) # 0

\* C1: undo round-trip.  When the last accepted mutation was a create, delete, add
\* or clear that took the collection from S0 to S1, an accepted undo performed next
\* leaves the live collection equal to S0.
C1_UndoRoundTrip ==
    [][(mut.op \in MutationOps /\ last'.op = "undo" /\ last'.status = "ok")
          => all_lists' = mut.before]_vars

\* an undo has just taken back a delete, and the collection it left differs from
\* the one it found
C1_Witness ==
    /\ last.op = "undo" /\ last.status = "ok"
    /\ mut.undone = "delete"
    /\ all_lists # mut.before

\* C2: a rejected action changes nothing.  Create with an empty or whitespace-only
\* name, add with a text that yields no pair, delete with no valid current list and
\* undo with an empty history leave collection, history, selection and the gists as
\* they were and call no save.
C2_RejectedChangesNothing ==
    [][(\/ last'.op = "create" /\ IsBlank(last'.arg)
        \/ last'.op = "add" /\ findall(last'.arg) = <<>>
        \/ last'.op = "delete" /\ current_list \notin DOMAIN all_lists
        \/ last'.op = "undo" /\ history = <<>>)
          => /\ UNCHANGED <<all_lists, history, current_list, select_choice>>
             /\ UNCHANGED <<gists, created>>
             /\ last'.status = "rejected"
             /\ last'.save = "none"]_vars

\* a whitespace-only name has just been refused while lists and history exist
C2_Witness ==
    /\ last.op = "create" /\ last.status = "rejected"
    /\ last.arg = <<" ">>
    /\ all_lists # EmptyLists
    /\ history # <<>>

\* C3: the current selection is no selection (None, or the placeholder entry of
\* the select box) or the name of a list of the live collection.
C3_SelectionValid ==
    current_list \in {None, NewLabel} \cup DOMAIN all_lists

\* the exact value of a numeral with at most one fractional digit, in tenths of a
\* quantum
Tenths(numeral) ==
    LET neg == Head(numeral) = "-"
        body == IF neg THEN Tail(numeral) ELSE numeral
        dot == DotAt(body, 1)
        ip == IF dot = 0 THEN body ELSE SubSeq(body, 1, dot - 1)
        fp == IF dot = 0 THEN <<"0">> ELSE SubSeq(body, dot + 1, Len(body))
        mag == (DigitsToInt(ip) * 10 + DigitsToInt(fp)) * Pow(2, FracBits)
    IN  IF neg THEN -mag ELSE mag

\* the exact sum of the quantities the pairs give for a code
RECURSIVE SumTenths(_, _)
SumTenths(pairs, code) ==
    IF pairs = <<>> THEN 0
    ELSE (IF Head(pairs)[1] = code THEN Tenths(Head(pairs)[2]) ELSE 0)
            + SumTenths(Tail(pairs), code)

\* C4: accumulation.  After an accepted add, every code of the current list holds
\* its quantity before (0 when absent) plus the sum of the quantities of the pairs
\* naming it; the other codes and the other lists are unchanged.
C4_Accumulation ==
    [][(last'.op = "add" /\ last'.status = "ok")
          => LET pairs == findall(last'.arg)
                 named == {pairs[i][1] : i \in 1..Len(pairs)}
                 old == all_lists[current_list]
                 new == all_lists'[current_list]
             IN  /\ DOMAIN all_lists' = DOMAIN all_lists
                 /\ \A n \in DOMAIN all_lists \ {current_list} :
                       all_lists'[n] = all_lists[n]
                 /\ DOMAIN new = DOMAIN old \cup named
                 /\ \A c \in DOMAIN new :
                       10 * new[c] = 10 * Count(old, c) + SumTenths(pairs, c)]_vars

\* C5: every mutation is persisted.  After an accepted create, delete, add, clear
\* or undo whose save updated the configured gist, the document in that gist reads
\* back as the live collection.
C5_Persisted ==
    (last.op \in MutationOps \cup {"undo"} /\ last.status = "ok"
        /\ last.save = "updated")
      => /\ gist_id \in DOMAIN gists
         /\ gists[gist_id].valid
         /\ loads(gists[gist_id].doc) = all_lists

\* an undo has just been saved to the configured gist, which held another
\* collection when the session began
C5_Witness ==
    /\ last.op = "undo" /\ last.status = "ok" /\ last.save = "updated"
    /\ all_lists \notin {EmptyLists, StoredLists}

\* C6: persistence round-trip.  A session that starts after a save returned an
\* identifier, with that identifier configured and the gist read successfully,
\* loads the collection that was saved.
C6_RoundTrip ==
    [][(last'.op = "start" /\ last'.status = "loaded"
          /\ mut.id # NoId /\ mut.id = gist_id)
          => all_lists' = all_lists]_vars

\* a session has just loaded a collection that holds a fractional quantity
C6_Witness ==
    /\ last.op = "start" /\ last.status = "loaded"
    /\ \E n \in DOMAIN all_lists : \E c \in DOMAIN all_lists[n] :
          HasFraction(all_lists[n][c])

\* the session state a handler produces up to its save
Effect(op, arg) ==
    CASE op = "create" -> create_new_list_mem(strip(arg))
      [] op = "delete" -> delete_current_list_mem
      [] op = "add" -> add_to_total_mem(findall(arg))
      [] op = "clear" -> clear_all_mem
      [] op = "undo" -> undo_mem

\* C7: no rollback on save failure.  When the save of an accepted create, delete,
\* add, clear or undo fails, collection, history and selection are what the handler
\* leaves when the save succeeds, and the session goes on accepting actions.
C7_NoRollback ==
    /\ [][(last'.status = "ok" /\ last'.save = "failed")
             => Here' = Rerun(after_save(last'.op, Effect(last'.op, last'.arg)))]_vars
    /\ []((last.save = "failed" /\ steps < MaxSteps) => ENABLED Next)

\* the save of an add has just failed, after an earlier mutation
C7_Witness ==
    /\ last.op = "add" /\ last.status = "ok" /\ last.save = "failed"
    /\ Len(history) >= 2
    /\ all_lists # mut.before

\* C8: duplicate create is rejected.  Create with a name whose trimmed form is an
\* existing list name is refused; collection (the list's tally included), history
\* and selection are unchanged.
C8_DuplicateRejected ==
    [][(last'.op = "create" /\ TrimOf(last'.arg) \in DOMAIN all_lists)
          => /\ last'.status = "rejected"
             /\ UNCHANGED <<all_lists, history, current_list, select_choice>>]_vars

\* a name that differs from an existing one only by surrounding whitespace has
\* just been refused, and the existing list still has its entries
C8_Witness ==
    /\ last.op = "create" /\ last.status = "rejected"
    /\ last.arg # TrimOf(last.arg)
    /\ TrimOf(last.arg) \in DOMAIN all_lists
    /\ all_lists[TrimOf(last.arg)] # EmptyTally

\* C9: successful create.  Create with a name whose trimmed form is non-empty and
\* not yet present adds exactly that list, empty, makes it the current selection
\* and leaves every other list as it was.
C9_CreateAdds ==
    [][(last'.op = "create" /\ ~IsBlank(last'.arg)
          /\ TrimOf(last'.arg) \notin DOMAIN all_lists)
          => LET name == TrimOf(last'.arg)
             IN  /\ last'.status = "ok"
                 /\ DOMAIN all_lists' = DOMAIN all_lists \cup {name}
                 /\ all_lists'[name] = EmptyTally
                 /\ current_list' = name
                 /\ \A n \in DOMAIN all_lists : all_lists'[n] = all_lists[n]]_vars

\* a list has just been created beside a list that has entries
C9_Witness ==
    /\ last.op = "create" /\ last.status = "ok"
    /\ current_list = TrimOf(last.arg)
    /\ \E n \in DOMAIN all_lists : all_lists[n] # EmptyTally

\* C10: clear preserves list identity.  Clear leaves the current list present with
\* zero entries and leaves the list names, the other lists and the selection
\* unchanged.
C10_ClearKeepsList ==
    [][(last'.op = "clear")
          => /\ last'.status = "ok"
             /\ DOMAIN all_lists' = DOMAIN all_lists
             /\ all_lists'[current_list] = EmptyTally
             /\ \A n \in DOMAIN all_lists \ {current_list} :
                   all_lists'[n] = all_lists[n]
             /\ current_list' = current_list]_vars

\* a list that had entries has just been cleared beside another list
C10_Witness ==
    /\ last.op = "clear" /\ last.status = "ok"
    /\ mut.before[current_list] # EmptyTally
    /\ all_lists[current_list] = EmptyTally
    /\ Cardinality(DOMAIN all_lists) >= 2

\* C11: delete.  Deleting the current list when it exists removes exactly that
\* list, leaves every other list and its tally unchanged and sets the current
\* selection to no selection.
C11_DeleteRemoves ==
    [][(last'.op = "delete" /\ current_list \in DOMAIN all_lists)
          => /\ last'.status = "ok"
             /\ DOMAIN all_lists' = DOMAIN all_lists \ {current_list}
             /\ \A n \in DOMAIN all_lists' : all_lists'[n] = all_lists[n]
             /\ current_list' = None]_vars

\* a list has just been deleted beside a list that has entries
C11_Witness ==
    /\ last.op = "delete" /\ last.status = "ok"
    /\ Cardinality(DOMAIN mut.before) = Cardinality(DOMAIN all_lists) + 1
    /\ \E n \in DOMAIN all_lists : all_lists[n] # EmptyTally
    /\ current_list = None

\* a code of digits with at most one decimal point and no sign
FullyNumeric(code) ==
    /\ \A i \in 1..Len(code) : IsDigit(code[i]) \/ code[i] = "."
    /\ \E i \in 1..Len(code) : IsDigit(code[i])
    /\ Dots(code) <= 1

\* the exact value of a fully numeric code as numerator and denominator
Decimal(code) ==
    LET dot == DotAt(code, 1)
        ip == IF dot = 0 THEN code ELSE SubSeq(code, 1, dot - 1)
        fp == IF dot = 0 THEN <<>> ELSE SubSeq(code, dot + 1, Len(code))
    IN  [num |-> DigitsToInt(ip) * Pow(10, Len(fp)) + DigitsToInt(fp),
         den |-> Pow(10, Len(fp))]

\* code a may stand before code b in the overview
MayPrecede(a, b) ==
    IF FullyNumeric(a)
    THEN FullyNumeric(b) => Decimal(a).num * Decimal(b).den
                               <= Decimal(b).num * Decimal(a).den
    ELSE ~FullyNumeric(b) /\ ~StrLess(b, a)

\* the rows are the items, each once, numeric codes first by value, the other
\* codes after them by string order
Overview(rows, entries) ==
    /\ Len(rows) = Len(entries)
    /\ \A i \in 1..Len(entries) : \E j \in 1..Len(rows) : rows[j] = entries[i]
    /\ \A i \in 1..Len(rows) : \A j \in (i + 1)..Len(rows) :
          MayPrecede(rows[i][1], rows[j][1])

\* C12: sorted overview.  For every tally the parser can produce, the overview
\* does not fail and returns every entry exactly once, the fully numeric codes
\* (digits, at most one decimal point, no sign) first in ascending numeric value,
\* all other codes (digits with more than one decimal point included) after them
\* in ascending lexicographic order.
C12_TotalOrder ==
    call.stage \in {"shown", "raised"}
        => /\ call.error = "none"
           /\ Overview(call.rows, call.items)

\* whenever sorted() returns, its rows are in the order the overview promises
C12_OrderWhenShown ==
    call.stage = "shown" => Overview(call.rows, call.items)

\* C13: load never fails to the caller.  A session that has just started holds
\* the collection stored under the configured identifier, or the empty collection
\* when no identifier is configured, the gist or its file is missing, the backend
\* is unreachable or the document is malformed; its selection is no selection and
\* its history is empty.
C13_LoadNeverFails ==
    last.op = "start"
        => /\ last.status \in {"unconfigured", "unreachable", "missing", "malformed",
                               "loaded"}
           /\ all_lists = IF last.status = "loaded" THEN loads(gists[gist_id].doc)
                          ELSE EmptyLists
           /\ last.status = "loaded"
                 => gist_id # NoId /\ gist_id \in DOMAIN gists /\ gists[gist_id].valid
           /\ current_list = None
           /\ select_choice = None
           /\ history = <<>>

\* a session has just started empty, after actions of an earlier session, while
\* the backend holding a non-empty collection could not be reached
C13_Witness ==
    /\ last.op = "start" /\ last.status = "unreachable"
    /\ steps >= 2
    /\ gist_id \in DOMAIN gists /\ gists[gist_id].valid
    /\ loads(gists[gist_id].doc) # EmptyLists
    /\ all_lists = EmptyLists

\* the maximal runs of non-whitespace characters of s from position i on
RECURSIVE Tokens(_, _)
Tokens(s, i) ==
    IF i > Len(s) THEN <<>>
    ELSE IF IsSpace(s[i]) THEN Tokens(s, i + 1)
    ELSE LET j == CHOOSE k \in i..Len(s) :
                     /\ \A m \in i..k : ~IsSpace(s[m])
                     /\ k = Len(s) \/ IsSpace(s[k + 1])
         IN  <<SubSeq(s, i, j)>> \o Tokens(s, j + 1)

\* a decimal number: an optional "-", digits, optionally "." and digits
IsNumeral(tok) ==
    LET body == IF tok # <<>> /\ tok[1] = "-" THEN Tail(tok) ELSE tok
        dots == {i \in 1..Len(body) : body[i] = "."}
    IN  /\ body # <<>>
        /\ \A i \in 1..Len(body) : IsDigit(body[i]) \/ i \in dots
        /\ Cardinality(dots) <= 1
        /\ IsDigit(body[1]) /\ IsDigit(body[Len(body)])

\* the text is code tokens each followed by whitespace and a decimal number
CodeNumberText(s) ==
    LET toks == Tokens(s, 1)
    IN  /\ toks # <<>>
        /\ Len(toks) % 2 = 0
        /\ \A i \in 1..Len(toks) : i % 2 = 0 => IsNumeral(toks[i])

\* the pairs such a text spells, in order
SpelledPairs(s) ==
    LET toks == Tokens(s, 1)
    IN  [i \in 1..(Len(toks) \div 2) |-> <<toks[2 * i - 1], toks[2 * i]>>]

\* a decimal number begins at position p of s
NumberBegins(s, p) ==
    /\ p <= Len(s)
    /\ IsDigit(s[p]) \/ (s[p] = "-" /\ p < Len(s) /\ IsDigit(s[p + 1]))

\* the end of the whitespace run that begins at p (p itself when there is none)
PastSpaces(s, p) ==
    CHOOSE q \in p..(Len(s) + 1) :
        /\ \A m \in p..(q - 1) : IsSpace(s[m])
        /\ q = Len(s) + 1 \/ ~IsSpace(s[q])

\* some non-whitespace character is followed by whitespace and a decimal number
SpacedOccurrence(s) ==
    \E i \in 1..Len(s) :
        /\ ~IsSpace(s[i])
        /\ i < Len(s) /\ IsSpace(s[i + 1])
        /\ NumberBegins(s, PastSpaces(s, i + 1))

\* some non-whitespace character is followed, directly or after whitespace, by a
\* decimal number
AnyOccurrence(s) ==
    \E i \in 1..Len(s) : ~IsSpace(s[i]) /\ NumberBegins(s, PastSpaces(s, i + 1))

\* C14 as stated: parser extraction.  For a text made of code tokens each followed
\* by whitespace and a decimal number, findall returns exactly the pairs the text
\* spells, in order, however they are spread over lines; for a text in which no
\* code is followed by whitespace and a number it returns the empty sequence.
C14_Stated ==
    call.stage \in {"matched", "warned"}
        => /\ CodeNumberText(call.text) => call.matches = SpelledPairs(call.text)
           /\ ~SpacedOccurrence(call.text) => call.matches = <<>>

\* C14 amended: parser extraction.  For a text made of code tokens each followed
\* by whitespace and a decimal number, findall returns exactly the pairs the text
\* spells, in order, however they are spread over lines; for a text in which no
\* non-whitespace character is followed, directly or after whitespace, by a
\* decimal number it returns the empty sequence (and only for such a text).
C14_Extraction ==
    call.stage \in {"matched", "warned"}
        => /\ CodeNumberText(call.text) => call.matches = SpelledPairs(call.text)
           /\ ~AnyOccurrence(call.text) <=> call.matches = <<>>

\* two pairs on two lines, the second with a negative number, have been extracted
C14_Witness ==
    /\ call.stage = "matched"
    /\ CodeNumberText(call.text)
    /\ Len(call.matches) = 2
    /\ \E i \in 1..Len(call.text) : call.text[i] = "\n"
    /\ call.matches[2][2] = <<"-", "1">>

\* C15: snapshot-then-mutate.  Every accepted create, delete, add or clear, the
\* clear of an already empty list included, makes the history one entry longer,
\* and the new top entry equals the collection as it was before the mutation.
C15_SnapshotThenMutate ==
    [][(last'.op \in MutationOps /\ last'.status = "ok")
          => history' = Append(history, all_lists)]_vars

\* an empty list has just been cleared: the collection is what it was and the
\* history has grown by that collection
C15_Witness ==
    /\ last.op = "clear" /\ last.status = "ok"
    /\ mut.before[current_list] = EmptyTally
    /\ all_lists = mut.before
    /\ Len(history) >= 2
    /\ history[Len(history)] = mut.before

Growth(l) ==
    IF l.status # "ok" THEN 0
    ELSE IF l.op \in MutationOps THEN 1
    ELSE IF l.op = "undo" THEN -1
    ELSE 0

C18_ProvisionOnce ==
    [][(gist_id = NoId /\ mut.minted # NoId
          /\ last'.op \in MutationOps \cup {"undo"} /\ last'.status = "ok"
          /\ last'.save # "failed")
          => /\ last'.id = mut.minted
             /\ created' = created]_vars

\* the session whose save to the configured gist completed last
LastWriter ==
    IF sessions.writer = sessions.active THEN [mem |-> Here, mut |-> mut]
    ELSE [mem |-> sessions.other.mem, mut |-> sessions.other.mut]

\* C19: last write wins.  With two sessions on the same gist, after any
\* interleaving of their actions the document in the gist reads back as the
\* collection of the session whose save completed last (as long as that session's
\* newest mutation is the one it saved there), whatever the other session has
\* saved before.
C19_LastWriteWins ==
    (sessions.writer # 0 /\ LastWriter.mut.id = gist_id)
        => /\ gist_id \in DOMAIN gists
           /\ gists[gist_id].valid
           /\ loads(gists[gist_id].doc) = LastWriter.mem.all_lists

\* a lost update: this session has just saved, and a change the other session
\* had saved before is in the other session's collection but no longer in the gist
C19_Witness ==
    /\ sessions.writer = sessions.active
    /\ last.status = "ok" /\ last.save = "updated"
    /\ sessions.other.mut.op \in MutationOps
    /\ sessions.other.mut.id = gist_id
    /\ loads(gists[gist_id].doc) = all_lists
    /\ \E n \in DOMAIN sessions.other.mem.all_lists \cap DOMAIN sessions.other.mut.before :
          /\ sessions.other.mem.all_lists[n] # sessions.other.mut.before[n]
          /\ n \in DOMAIN all_lists
          /\ all_lists[n] = sessions.other.mut.before[n]

\* C20: every deletion can be undone.  From the state right after an accepted
\* delete, the deletion of the only list included, some sequence of user actions
\* ends in an undo that takes the deletion back: it pops the snapshot the delete
\* pushed and leaves the collection as it was before the deletion.
C20_DeleteUndoable ==
    (last.op = "delete" /\ last.status = "ok")
        => CanRestore(Here, mut.before, MaxPlan)

\* after the deletion of a list beside which another is left, selecting that one
\* and pressing undo brings the deleted list back
C20_UndoableBesideAnother ==
    (last.op = "delete" /\ last.status = "ok" /\ all_lists # EmptyLists)
        => CanRestore(Here, mut.before, 2)

\* undo is never accepted while the collection is empty: no list can be current,
\* so the script stops before it renders the button
C20_NoUndoWhenEmpty ==
    [][(last'.op = "undo" /\ last'.status = "ok") => all_lists # EmptyLists]_vars

====
